---- MODULE Spec2Model ----
(***************************************************************************)
(* Model of modbus_bridge.py: the ModbusBridge connection-lifecycle and    *)
(* bus-arbitration engine.  The bridge runs on one asyncio event loop, so  *)
(* a task runs without interruption from one await to the next: every      *)
(* action below is the code a task executes between two awaits, and the    *)
(* value of pc[t] names the await the task is suspended at.                *)
(***************************************************************************)
EXTENDS Integers, Sequences, FiniteSets, TLC

\* ---------------------------------------------------------------- bounds
NumClients == 2      \* TCP client sessions the listener may accept
MaxChunks == 2       \* request chunks the peers send in a run
MaxConns2 == 2       \* connections the NPort 2 gateway accepts in total
MaxLen == 1          \* length of the value of a numeric environment variable

\* A longer run, for the cases that take three chunks: one whose exchange
\* fails and two that meet afterwards.
LongChunks == MaxChunks + 1

None == 0                       \* Python's None for a reader / writer
Sec == 0                        \* the bridge_nport2_to_nport1 task
Main == 99                      \* the run() task, in ev
Clients == 1..NumClients        \* the bridge_tcp_to_nport1 tasks
Tasks == Clients \cup {Sec}
\* Request chunks are opaque bytes: the n-th chunk received is named n, so
\* that any two chunks differ.
Data == 1..LongChunks
\* Identities of the connections to NPort 1: run() makes one, and every
\* received chunk leads to at most one call of connect_nport1.
Conns1 == 1..(LongChunks + 1)
Conns2 == 1..MaxConns2       \* identities of connections to NPort 2

\* The device's answer to the request d; distinct from every request.
Reply(d) == d + LongChunks

VARIABLES
    running,        \* self.running
    main_pc,        \* position of run() / cleanup()
    server,         \* start_tcp_server: "idle", "starting", "listening", "failed"
    nport1_reader,  \* self.nport1_reader: a connection of Conns1 or None
    nport1_writer,  \* self.nport1_writer
    nport2_reader,  \* self.nport2_reader
    nport2_writer,  \* self.nport2_writer
    bus_lock,       \* self.bus_lock: [locked, waiters] of asyncio.Lock
    pc,             \* per task: the await it is suspended at
    data,           \* per task: the local variable data (0 when unset)
    wr,             \* per task: the NPort 1 connection its request was written to
    rd,             \* per task: the NPort 1 connection its read is waiting on
    open1,          \* connections to NPort 1 the process holds open
    open2,          \* connections to NPort 2 the process holds open
    made1,          \* connections to NPort 1 established so far
    made2,          \* connections to NPort 2 established so far
    wire,           \* per NPort 1 connection: requests written, not yet answered
    rx,             \* per task: replies written back to its requester
    client_open,    \* per client: its socket is accepted and not closed
    chunks,         \* request chunks received so far
    budget,         \* request chunks the peers send in this run
    env,            \* os.environ: the settings supplied, by name
    config,         \* main(): the dict load_config returned, until it is used
    exit_status,    \* the status sys.exit was called with, or NotExited
    traced,         \* whether ev is kept (constant over a behaviour)
    ev              \* the last step: [t |-> task, e |-> what completed and how]

handles1 == <<nport1_reader, nport1_writer>>
handles2 == <<nport2_reader, nport2_writer>>
conns1 == <<open1, made1>>
conns2 == <<open2, made2>>
locals == <<data, wr, rd>>
settings == <<env, config, exit_status, budget>>
vars == <<running, main_pc, server, nport1_reader, nport1_writer, nport2_reader,
          nport2_writer, bus_lock, pc, data, wr, rd, open1, open2, made1, made2,
          wire, rx, client_open, chunks, budget, env, config, exit_status, traced,
          ev>>

\* ------------------------------------------------------------ load_config
\* The characters a supplied numeric setting is made of, and the values
\* a supplied host setting may have.
Chars == {"0", "4", "-", "x"}
Strings == UNION {[1..n -> Chars] : n \in 0..MaxLen}
Hosts == {"gateway.example"}

\* The environment variables load_config reads (lines 324-330).
NumericNames == {"NPORT1_PORT", "NPORT2_PORT", "LISTEN_PORT", "MODBUS_TIMEOUT"}
HostNames == {"NPORT1_HOST", "NPORT2_HOST", "LISTEN_HOST"}

NoEnv == [n \in {} |-> <<>>]        \* no setting supplied
NoConfig == [k \in {} |-> <<>>]     \* main() holds no configuration
NotExited == -1                     \* sys.exit has not been called

\* os.getenv(name, default): the supplied value, or the default.
getenv(name, default) == IF name \in DOMAIN env THEN env[name] ELSE default

DigitChars == <<"0", "1", "2", "3", "4", "5", "6", "7", "8", "9">>
IsDigit(ch) == \E i \in DOMAIN DigitChars : DigitChars[i] = ch
DigitValue(ch) == (CHOOSE i \in DOMAIN DigitChars : DigitChars[i] = ch) - 1

RECURSIVE Decimal(_)
Decimal(s) ==
    IF s = <<>> THEN 0
    ELSE 10 * Decimal(SubSeq(s, 1, Len(s) - 1)) + DigitValue(s[Len(s)])

\* (variant) a conversion that reads what it cannot parse as 0.
IntLenient(s) ==
    [raised |-> FALSE,
     value |-> IF s # <<>> /\ \A i \in DOMAIN s : IsDigit(s[i]) THEN Decimal(s) ELSE 0]

\* Python's int(str) on the strings of Chars: an optional sign followed by
\* one or more digits gives the number; anything else raises ValueError.
int(s) ==
    LET signed == s # <<>> /\ Head(s) \in {"-", "+"}
        digits == IF signed THEN Tail(s) ELSE s
    IN  IF digits = <<>> \/ \E i \in DOMAIN digits : ~IsDigit(digits[i])
        THEN [raised |-> TRUE, value |-> 0]
        ELSE [raised |-> FALSE,
              value |-> IF signed /\ Head(s) = "-" THEN 0 - Decimal(digits)
                                                   ELSE Decimal(digits)]

\* (variant) a load_config that never reads the environment.
LoadDefaultsOnly ==
    [exit |-> FALSE,
     config |-> [nport1_host |-> "192.168.1.100", nport1_port |-> 4001,
                 nport2_host |-> "192.168.1.101", nport2_port |-> 4002,
                 listen_host |-> "0.0.0.0", listen_port |-> 5020, timeout |-> 3]]

\* load_config (lines 320-343): the dict of lines 323-331, or sys.exit(1)
\* when one of the four int() calls raises ValueError (lines 332-335).
load_config ==
    LET nport1_port == int(getenv("NPORT1_PORT", <<"4", "0", "0", "1">>))
        nport2_port == int(getenv("NPORT2_PORT", <<"4", "0", "0", "2">>))
        listen_port == int(getenv("LISTEN_PORT", <<"5", "0", "2", "0">>))
        timeout == int(getenv("MODBUS_TIMEOUT", <<"3">>))
    IN  IF nport1_port.raised \/ nport2_port.raised \/ listen_port.raised \/ timeout.raised
        THEN [exit |-> TRUE, config |-> NoConfig]
        ELSE [exit |-> FALSE,
              config |-> [nport1_host |-> getenv("NPORT1_HOST", "192.168.1.100"),
                          nport1_port |-> nport1_port.value,
                          nport2_host |-> getenv("NPORT2_HOST", "192.168.1.101"),
                          nport2_port |-> nport2_port.value,
                          listen_host |-> getenv("LISTEN_HOST", "0.0.0.0"),
                          listen_port |-> listen_port.value,
                          timeout |-> timeout.value]]

NoEvent == [t |-> Main, e |-> ""]
Note(t, e) == IF traced THEN [t |-> t, e |-> e] ELSE NoEvent

\* __init__ (lines 48-65): no connection, lock free, not running.
Fields ==
    /\ running = FALSE
    /\ server = "idle"
    /\ nport1_reader = None /\ nport1_writer = None
    /\ nport2_reader = None /\ nport2_writer = None
    /\ bus_lock = [locked |-> FALSE, waiters |-> <<>>]
    /\ pc = [t \in Tasks |-> "idle"]
    /\ data = [t \in Tasks |-> 0]
    /\ wr = [t \in Tasks |-> None]
    /\ rd = [t \in Tasks |-> None]
    /\ open1 = {} /\ open2 = {}
    /\ made1 = 0 /\ made2 = 0
    /\ wire = [k \in Conns1 |-> <<>>]
    /\ rx = [t \in Tasks |-> <<>>]
    /\ client_open = [c \in Clients |-> FALSE]
    /\ chunks = 0
    /\ ev = NoEvent
    /\ config = NoConfig
    /\ exit_status = NotExited

\* The bridge as main() has constructed it (line 350), about to run().
Start == Fields /\ main_pc = "init" /\ env = NoEnv

\* The process as it starts main(), with the settings the environment
\* supplies: any of the seven variables, each unset or set.
ConfigInit ==
    /\ Fields /\ main_pc = "load" /\ traced = FALSE /\ budget = MaxChunks
    /\ \E DN \in SUBSET NumericNames, DH \in SUBSET HostNames :
          \E f \in [DN -> Strings], g \in [DH -> Hosts] : env = f @@ g

Init == Start /\ traced = FALSE /\ budget = MaxChunks
InitTraced == Start /\ traced = TRUE /\ budget = MaxChunks
\* The same bridge in a run of LongChunks chunks.
LongInit == Start /\ traced = FALSE /\ budget = LongChunks
LongInitTraced == Start /\ traced = TRUE /\ budget = LongChunks

\* ------------------------------------------------------------ asyncio.Lock
\* acquire() takes the lock without suspending only when it is free and
\* nobody waits; otherwise the caller joins the waiters.
\* (variant) acquire() that looks at the waiters only, not at the holder.
LockFreeIgnoresHolder(l) == l.waiters = <<>>
LockFree(l) == ~l.locked /\ l.waiters = <<>>
LockTaken(l) == [locked |-> TRUE, waiters |-> l.waiters]
LockQueued(l, t) == [locked |-> l.locked, waiters |-> Append(l.waiters, t)]
\* release(): the lock is free again; the first waiter is woken and takes
\* it when it runs next.
LockReleased(l) == [locked |-> FALSE, waiters |-> l.waiters]
\* (variant) release() that wakes any waiter, not the first.
LockWokenAny(l, t) == ~l.locked /\ \E i \in DOMAIN l.waiters : l.waiters[i] = t
\* a woken waiter leaves the queue and takes the lock.
LockWoken(l, t) == ~l.locked /\ l.waiters # <<>> /\ Head(l.waiters) = t
LockHandedOver(l) == [locked |-> TRUE, waiters |-> Tail(l.waiters)]

\* --------------------------------------------------------- run / cleanup
\* main(), line 348: load_config returns the configuration or exits.
LoadConfig ==
    /\ main_pc = "load"
    /\ IF load_config.exit
       THEN /\ exit_status' = 1
            /\ config' = NoConfig
            /\ main_pc' = "exit"
       ELSE /\ exit_status' = exit_status
            /\ config' = load_config.config
            /\ main_pc' = "configured"
    /\ ev' = Note(Main, "load_config")
    /\ UNCHANGED <<env, budget, traced, running, server, handles1, handles2, bus_lock, pc,
                   locals, conns1, conns2, wire, rx, client_open, chunks>>

\* main(), lines 350-358: the bridge is constructed from the configuration,
\* which is not used again.
Construct ==
    /\ main_pc = "configured"
    /\ config' = NoConfig
    /\ main_pc' = "init"
    /\ ev' = Note(Main, "constructed")
    /\ UNCHANGED <<env, exit_status, budget, traced, running, server, handles1, handles2, bus_lock, pc,
                   locals, conns1, conns2, wire, rx, client_open, chunks>>

\* run(), lines 279-283: running is set and connect_nport1 is awaited.
Run ==
    /\ main_pc = "init"
    /\ running' = TRUE
    /\ main_pc' = "connect1"
    /\ ev' = Note(Main, "run")
    /\ UNCHANGED <<settings, traced, server, handles1, handles2, bus_lock, pc, locals, open1, open2,
                   made1, made2, wire, rx, client_open, chunks>>

\* (variant) run() without the return of line 285.
RunPrimaryIgnoresFailure(ok) ==
    /\ main_pc = "connect1"
    /\ IF ok
       THEN /\ made1' = made1 + 1
            /\ open1' = open1 \cup {made1 + 1}
            /\ nport1_reader' = made1 + 1
            /\ nport1_writer' = made1 + 1
       ELSE UNCHANGED <<made1, open1, handles1>>
    /\ main_pc' = "connect2"
    /\ ev' = Note(Main, IF ok THEN "primary_ok" ELSE "primary_failed")
    /\ UNCHANGED <<settings, traced, running, server, handles2, bus_lock, pc, locals, open2, made2,
                   wire, rx, client_open, chunks>>

\* connect_nport1 returns to run() (lines 283-289): on failure run() returns,
\* on success connect_nport2 is awaited.
RunPrimary(ok) ==
    /\ main_pc = "connect1"
    /\ IF ok
       THEN /\ made1' = made1 + 1
            /\ open1' = open1 \cup {made1 + 1}
            /\ nport1_reader' = made1 + 1
            /\ nport1_writer' = made1 + 1
            /\ main_pc' = "connect2"
       ELSE /\ main_pc' = "exited"
            /\ UNCHANGED <<made1, open1, handles1>>
    /\ ev' = Note(Main, IF ok THEN "primary_ok" ELSE "primary_failed")
    /\ UNCHANGED <<settings, traced, running, server, handles2, bus_lock, pc, locals, open2, made2, wire,
                   rx, client_open, chunks>>

\* connect_nport2 returns to run() (lines 289-296): whatever its result,
\* gather starts start_tcp_server and bridge_nport2_to_nport1.
RunSecondary(ok) ==
    /\ main_pc = "connect2"
    /\ IF ok
       THEN /\ made2 < MaxConns2
            /\ made2' = made2 + 1
            /\ open2' = open2 \cup {made2 + 1}
            /\ nport2_reader' = made2 + 1
            /\ nport2_writer' = made2 + 1
       ELSE UNCHANGED <<made2, open2, handles2>>
    /\ main_pc' = "serving"
    /\ server' = "starting"
    /\ pc' = [pc EXCEPT ![Sec] = "start"]
    /\ ev' = Note(Main, IF ok THEN "secondary_ok" ELSE "secondary_failed")
    /\ UNCHANGED <<settings, traced, running, handles1, bus_lock, locals, conns1, wire, rx,
                   client_open, chunks>>

\* start_tcp_server, lines 265-275: asyncio.start_server binds the listener
\* or raises; serve_forever then accepts clients.
StartServer(ok) ==
    /\ server = "starting"
    /\ server' = IF ok THEN "listening" ELSE "failed"
    /\ ev' = Note(Main, IF ok THEN "listening" ELSE "listen_failed")
    /\ UNCHANGED <<settings, traced, running, main_pc, handles1, handles2, bus_lock, pc, locals, conns1,
                   conns2, wire, rx, client_open, chunks>>

\* start_tcp_server ends with an exception while serving (lines 274-275);
\* leaving "async with server" closes the listener.
ServerFails ==
    /\ server = "listening"
    /\ server' = "failed"
    /\ ev' = Note(Main, "server_failed")
    /\ UNCHANGED <<settings, traced, running, main_pc, handles1, handles2, bus_lock, pc, locals, conns1,
                   conns2, wire, rx, client_open, chunks>>

\* cleanup(), lines 313-315: the if on nport2_writer, with its close() and
\* the awaited wait_closed().
CleanupSecondary ==
    IF nport2_writer # None
    THEN /\ open2' = open2 \ {nport2_writer}
         /\ main_pc' = "cleanup2"
    ELSE /\ open2' = open2
         /\ main_pc' = "stopped"

\* run()'s "except Exception / finally" (lines 299-302) entering cleanup()
\* (lines 306-311): gather re-raises the listener's exception without
\* cancelling the other task; running is cleared and NPort 1 is closed.
Cleanup ==
    /\ main_pc = "serving"
    /\ server = "failed"
    /\ running' = FALSE
    /\ IF nport1_writer # None
       THEN /\ open1' = open1 \ {nport1_writer}
            /\ main_pc' = "cleanup1"
            /\ open2' = open2
       ELSE /\ open1' = open1
            /\ CleanupSecondary
    /\ ev' = Note(Main, "cleanup")
    /\ UNCHANGED <<settings, traced, server, handles1, handles2, bus_lock, pc, locals, made1, made2, wire, rx, client_open, chunks>>

\* cleanup(), line 311: wait_closed() of NPort 1 returns, or raises the
\* error the connection was lost with, which ends cleanup() there.
CleanupPrimaryClosed(ok) ==
    /\ main_pc = "cleanup1"
    /\ IF ok
       THEN CleanupSecondary
       ELSE /\ main_pc' = "stopped"
            /\ open2' = open2
    /\ ev' = Note(Main, IF ok THEN "closed1" ELSE "close1_raised")
    /\ UNCHANGED <<settings, traced, running, server, handles1, handles2, bus_lock, pc, locals, conns1,
                   made2, wire, rx, client_open, chunks>>

\* cleanup(), lines 315-317: wait_closed() of NPort 2 returns or raises.
CleanupSecondaryClosed ==
    /\ main_pc = "cleanup2"
    /\ main_pc' = "stopped"
    /\ ev' = Note(Main, "closed2")
    /\ UNCHANGED <<settings, traced, running, server, handles1, handles2, bus_lock, pc, locals, conns1,
                   conns2, wire, rx, client_open, chunks>>

\* asyncio.run(main()), line 365, once run() has returned from cleanup():
\* the event loop is closed, which cancels every task that is not over.
\* CancelledError is raised at the await the task is suspended at; it is
\* caught neither at lines 158 and 241 nor at lines 166 and 250, so the
\* handles stay as they are, "async with" releases the lock or leaves the
\* queue, and a client session's finally block closes its socket.
Teardown ==
    /\ main_pc = "stopped"
    /\ main_pc' = "finished"
    /\ pc' = [t \in Tasks |->
                IF t = Sec THEN (IF pc[t] = "idle" THEN "idle" ELSE "done")
                ELSE IF pc[t] = "idle" THEN "idle" ELSE "closed"]
    /\ client_open' = [c \in Clients |-> FALSE]
    /\ bus_lock' = [locked |-> FALSE, waiters |-> <<>>]
    /\ data' = [t \in Tasks |-> 0]
    /\ wr' = [t \in Tasks |-> None]
    /\ rd' = [t \in Tasks |-> None]
    /\ ev' = Note(Main, "teardown")
    /\ UNCHANGED <<settings, traced, running, server, handles1, handles2, conns1, conns2, wire,
                   rx, chunks>>

MainNext ==
    \/ Run
    \/ \E ok \in BOOLEAN : RunPrimary(ok)
    \/ \E ok \in BOOLEAN : RunSecondary(ok)
    \/ \E ok \in BOOLEAN : StartServer(ok)
    \/ ServerFails
    \/ Cleanup
    \/ \E ok \in BOOLEAN : CleanupPrimaryClosed(ok)
    \/ CleanupSecondaryClosed
    \/ Teardown

\* (variant) ensure_nport1_connected without the test of line 83.
EnsureAlwaysReconnects(r, w) == FALSE

\* ensure_nport1_connected, line 83: TRUE when both handles are set, in
\* which case it returns without calling connect_nport1.
ensure_nport1_connected(r, w) == w # None /\ r # None

\* ------------------------------------------ bridge_tcp_to_nport1 (client c)
\* The loop condition "while self.running" (line 116), reached by continue
\* or by the end of the body, and the finally block (lines 168-171) that
\* closes the client socket when the loop is left.  Nothing but a log line
\* follows the awaited wait_closed(), so the task is over at close().
ClientIter(c) ==
    IF running
    THEN /\ pc' = [pc EXCEPT ![c] = "read"]
         /\ client_open' = client_open
    ELSE /\ pc' = [pc EXCEPT ![c] = "closed"]
         /\ client_open' = [client_open EXCEPT ![c] = FALSE]

\* (variant) the loop is left without closing the client socket.
ClientFinallyNoClose(c) ==
    /\ pc' = [pc EXCEPT ![c] = "closed"]
    /\ client_open' = client_open

\* Leaving the loop by break or by an exception of the client read
\* (lines 120-122, 164-170): the finally block closes the client socket.
ClientFinally(c) ==
    /\ pc' = [pc EXCEPT ![c] = "closed"]
    /\ client_open' = [client_open EXCEPT ![c] = FALSE]

\* Lines 134-140 with the lock l held and the handles (r, w) in effect:
\* the chunk is written to nport1_writer and drain() is awaited.  With
\* nport1_writer None the write raises, and lines 158-162 clear the
\* handles before the lock is released.
ClientCritical(c, d, r, w, l) ==
    IF w = None
    THEN /\ nport1_reader' = None
         /\ nport1_writer' = None
         /\ bus_lock' = LockReleased(l)
         /\ ClientIter(c)
         /\ data' = [data EXCEPT ![c] = 0]
         /\ UNCHANGED <<wire, wr>>
    ELSE /\ nport1_reader' = r
         /\ nport1_writer' = w
         /\ bus_lock' = l
         /\ wire' = [wire EXCEPT ![w] = Append(@, d)]
         /\ wr' = [wr EXCEPT ![c] = w]
         /\ data' = [data EXCEPT ![c] = d]
         /\ pc' = [pc EXCEPT ![c] = "drain"]
         /\ UNCHANGED client_open

\* "async with self.bus_lock" (line 133) with the handles (r, w) in effect.
ClientAcquire(c, d, r, w) ==
    IF LockFree(bus_lock)
    THEN ClientCritical(c, d, r, w, LockTaken(bus_lock))
    ELSE /\ bus_lock' = LockQueued(bus_lock, c)
         /\ pc' = [pc EXCEPT ![c] = "lock"]
         /\ data' = [data EXCEPT ![c] = d]
         /\ nport1_reader' = r
         /\ nport1_writer' = w
         /\ UNCHANGED <<wire, wr, client_open>>

\* (variant) lines 158-162 without the two assignments of None.
ClientLeaveKeepsHandles(c, invalidate) ==
    /\ UNCHANGED <<nport1_reader, nport1_writer>>
    /\ bus_lock' = LockReleased(bus_lock)
    /\ data' = [data EXCEPT ![c] = 0]
    /\ wr' = [wr EXCEPT ![c] = None]
    /\ rd' = [rd EXCEPT ![c] = None]
    /\ ClientIter(c)

\* (variant) the lock is released on the normal path only.
ClientLeaveKeepsLock(c, invalidate) ==
    /\ nport1_reader' = IF invalidate THEN None ELSE nport1_reader
    /\ nport1_writer' = IF invalidate THEN None ELSE nport1_writer
    /\ bus_lock' = IF invalidate THEN bus_lock ELSE LockReleased(bus_lock)
    /\ data' = [data EXCEPT ![c] = 0]
    /\ wr' = [wr EXCEPT ![c] = None]
    /\ rd' = [rd EXCEPT ![c] = None]
    /\ ClientIter(c)

\* The end of the critical section: lines 158-162 when the body raised
\* (invalidate), the release of the lock by "async with", and the next
\* evaluation of the loop condition.
ClientLeave(c, invalidate) ==
    /\ nport1_reader' = IF invalidate THEN None ELSE nport1_reader
    /\ nport1_writer' = IF invalidate THEN None ELSE nport1_writer
    /\ bus_lock' = LockReleased(bus_lock)
    /\ data' = [data EXCEPT ![c] = 0]
    /\ wr' = [wr EXCEPT ![c] = None]
    /\ rd' = [rd EXCEPT ![c] = None]
    /\ ClientIter(c)

\* The server's connection callback starts bridge_tcp_to_nport1
\* (lines 112-118): the loop condition, then the first client read.
Accept(c) ==
    /\ server = "listening"
    /\ pc[c] = "idle"
    /\ IF running
       THEN /\ pc' = [pc EXCEPT ![c] = "read"]
            /\ client_open' = [client_open EXCEPT ![c] = TRUE]
       ELSE /\ pc' = [pc EXCEPT ![c] = "closed"]
            /\ client_open' = client_open
    /\ ev' = Note(c, "accept")
    /\ UNCHANGED <<settings, traced, running, main_pc, server, handles1, handles2, bus_lock, locals,
                   conns1, conns2, wire, rx, chunks>>

\* (variant) the lock is taken before ensure_nport1_connected is called.
ClientReadDataLocksFirst(c) ==
    LET d == chunks + 1 IN
    /\ pc[c] = "read"
    /\ chunks < budget
    /\ chunks' = chunks + 1
    /\ IF ensure_nport1_connected(nport1_reader, nport1_writer)
       THEN ClientAcquire(c, d, nport1_reader, nport1_writer)
       ELSE /\ pc' = [pc EXCEPT ![c] = "connect1"]
            /\ data' = [data EXCEPT ![c] = d]
            /\ bus_lock' = IF LockFree(bus_lock) THEN LockTaken(bus_lock) ELSE bus_lock
            /\ UNCHANGED <<handles1, wire, wr, client_open>>
    /\ ev' = Note(c, "read_data")
    /\ UNCHANGED <<settings, traced, running, main_pc, server, handles2, rd, open1, made1, conns2, rx>>

\* The client read of line 118 returns a chunk (lines 124-140):
\* ensure_nport1_connected, then the lock and the write, or a connect.
ClientReadData(c) ==
    LET d == chunks + 1 IN
    /\ pc[c] = "read"
    /\ chunks < budget
    /\ chunks' = chunks + 1
    /\ IF ensure_nport1_connected(nport1_reader, nport1_writer)
       THEN ClientAcquire(c, d, nport1_reader, nport1_writer)
       ELSE /\ pc' = [pc EXCEPT ![c] = "connect1"]
            /\ data' = [data EXCEPT ![c] = d]
            /\ UNCHANGED <<handles1, bus_lock, wire, wr, client_open>>
    /\ ev' = Note(c, "read_data")
    /\ UNCHANGED <<settings, traced, running, main_pc, server, handles2, rd, open1, made1, conns2, rx>>

\* The client read returns empty (lines 120-122), times out (line 164) or
\* raises (line 166): the session ends through the finally block.
ClientReadEnds(c, how) ==
    /\ pc[c] = "read"
    /\ ClientFinally(c)
    /\ ev' = Note(c, how)
    /\ UNCHANGED <<settings, traced, running, main_pc, server, handles1, handles2, bus_lock, locals,
                   conns1, conns2, wire, rx, chunks>>

\* (variant) a failed connect ends the session instead of "continue".
ClientConnectedEndsSession(c, ok) ==
    /\ pc[c] = "connect1"
    /\ IF ok
       THEN /\ made1' = made1 + 1
            /\ open1' = open1 \cup {made1 + 1}
            /\ ClientAcquire(c, data[c], made1 + 1, made1 + 1)
       ELSE /\ ClientFinally(c)
            /\ data' = [data EXCEPT ![c] = 0]
            /\ UNCHANGED <<made1, open1, handles1, bus_lock, wire, wr>>
    /\ ev' = Note(c, IF ok THEN "connect_ok" ELSE "connect_failed")
    /\ UNCHANGED <<settings, traced, running, main_pc, server, handles2, rd, conns2, rx,
                   chunks>>

\* connect_nport1 (lines 69-79) returns inside ensure_nport1_connected
\* (line 87) called at line 127: the handles are replaced on success; on
\* failure the chunk is skipped (lines 128-130).
ClientConnected(c, ok) ==
    /\ pc[c] = "connect1"
    /\ IF ok
       THEN /\ made1' = made1 + 1
            /\ open1' = open1 \cup {made1 + 1}
            /\ ClientAcquire(c, data[c], made1 + 1, made1 + 1)
       ELSE /\ ClientIter(c)
            /\ data' = [data EXCEPT ![c] = 0]
            /\ UNCHANGED <<made1, open1, handles1, bus_lock, wire, wr>>
    /\ ev' = Note(c, IF ok THEN "connect_ok" ELSE "connect_failed")
    /\ UNCHANGED <<settings, traced, running, main_pc, server, handles2, rd, conns2, rx,
                   chunks>>

\* A waiter woken by release() takes the lock (line 133) and enters the
\* critical section with the handles as they are now.
ClientLocked(c) ==
    /\ pc[c] = "lock"
    /\ LockWoken(bus_lock, c)
    /\ ClientCritical(c, data[c], nport1_reader, nport1_writer, LockHandedOver(bus_lock))
    /\ ev' = Note(c, "locked")
    /\ UNCHANGED <<settings, traced, running, main_pc, server, handles2, rd, conns1, conns2, rx, chunks>>

\* drain() of line 137 completes.  "ok": the read of line 145 is started on
\* nport1_reader as it is now (None raises into line 158).  "error" and
\* "timeout" both reach line 158.
ClientDrained(c, how) ==
    /\ pc[c] = "drain"
    /\ IF how = "drain_ok" /\ nport1_reader # None
       THEN /\ rd' = [rd EXCEPT ![c] = nport1_reader]
            /\ pc' = [pc EXCEPT ![c] = "resp"]
            /\ UNCHANGED <<handles1, bus_lock, data, wr, client_open>>
       ELSE ClientLeave(c, TRUE)
    /\ ev' = Note(c, how)
    /\ UNCHANGED <<settings, traced, running, main_pc, server, handles2, conns1, conns2, wire, rx,
                   chunks>>

\* What the device sends on connection k: the answer to the oldest request
\* written to k that it has not answered yet.
Received(k) == Reply(Head(wire[k]))

\* (variant) the request is written back instead of the response.
ClientForwardRequest(c, response) == Append(rx[c], data[c])

\* client_writer.write(response), line 153.
ClientForward(c, response) == Append(rx[c], response)

\* The read of line 145 returns data (lines 150-154): the response is
\* written to the client and client_writer.drain() is awaited.
ClientResponseData(c) ==
    /\ pc[c] = "resp"
    /\ rd[c] \in open1
    /\ wire[rd[c]] # <<>>
    /\ wire' = [wire EXCEPT ![rd[c]] = Tail(@)]
    /\ rx' = [rx EXCEPT ![c] = ClientForward(c, Received(rd[c]))]
    /\ pc' = [pc EXCEPT ![c] = "reply"]
    /\ ev' = Note(c, "resp_data")
    /\ UNCHANGED <<settings, traced, running, main_pc, server, handles1, handles2, bus_lock, locals,
                   conns1, conns2, client_open, chunks>>

\* (variant) a reply timeout that ends the session.
ClientResponseNoneAborts(c, how) ==
    /\ pc[c] = "resp"
    /\ IF how = "resp_timeout"
       THEN /\ bus_lock' = LockReleased(bus_lock)
            /\ data' = [data EXCEPT ![c] = 0]
            /\ wr' = [wr EXCEPT ![c] = None]
            /\ rd' = [rd EXCEPT ![c] = None]
            /\ ClientFinally(c)
            /\ UNCHANGED handles1
       ELSE ClientLeave(c, how = "resp_error")
    /\ ev' = Note(c, how)
    /\ UNCHANGED <<settings, traced, running, main_pc, server, handles2, conns1, conns2, wire, rx,
                   chunks>>

\* The read of line 145 returns empty (line 150 is false), times out
\* (line 156) or raises (line 158).  Only the last clears the handles.
ClientResponseNone(c, how) ==
    /\ pc[c] = "resp"
    /\ ClientLeave(c, how = "resp_error")
    /\ ev' = Note(c, how)
    /\ UNCHANGED <<settings, traced, running, main_pc, server, handles2, conns1, conns2, wire, rx,
                   chunks>>

\* client_writer.drain() of line 154 completes; when it raises, line 158
\* catches the client's error and clears the NPort 1 handles.
ClientReplied(c, ok) ==
    /\ pc[c] = "reply"
    /\ ClientLeave(c, ~ok)
    /\ ev' = Note(c, IF ok THEN "reply_ok" ELSE "reply_error")
    /\ UNCHANGED <<settings, traced, running, main_pc, server, handles2, conns1, conns2, wire, rx,
                   chunks>>

ClientNext(c) ==
    \/ Accept(c)
    \/ ClientReadData(c)
    \/ \E how \in {"read_empty", "read_timeout", "read_error"} : ClientReadEnds(c, how)
    \/ \E ok \in BOOLEAN : ClientConnected(c, ok)
    \/ ClientLocked(c)
    \/ \E how \in {"drain_ok", "drain_error", "drain_timeout"} : ClientDrained(c, how)
    \/ ClientResponseData(c)
    \/ \E how \in {"resp_empty", "resp_timeout", "resp_error"} : ClientResponseNone(c, how)
    \/ \E ok \in BOOLEAN : ClientReplied(c, ok)

\* ---------------------------------------------- bridge_nport2_to_nport1
\* (variant) a loop that gives up when NPort 2 is not connected.
SecIterGivesUp(r2) ==
    IF ~running \/ r2 = None
    THEN pc' = [pc EXCEPT ![Sec] = "done"]
    ELSE pc' = [pc EXCEPT ![Sec] = "read"]

\* The head of the loop (lines 179-191) with nport2_reader = r2: the loop
\* condition, then either connect_nport2 or the read of NPort 2.
SecIter(r2) ==
    IF ~running
    THEN pc' = [pc EXCEPT ![Sec] = "done"]
    ELSE IF r2 = None
    THEN pc' = [pc EXCEPT ![Sec] = "connect2"]
    ELSE pc' = [pc EXCEPT ![Sec] = "read"]

\* Lines 216-222 with the lock l held and the handles (r, w) in effect.
SecCritical(d, r, w, l) ==
    IF w = None
    THEN /\ nport1_reader' = None
         /\ nport1_writer' = None
         /\ bus_lock' = LockReleased(l)
         /\ SecIter(nport2_reader)
         /\ data' = [data EXCEPT ![Sec] = 0]
         /\ UNCHANGED <<wire, wr>>
    ELSE /\ nport1_reader' = r
         /\ nport1_writer' = w
         /\ bus_lock' = l
         /\ wire' = [wire EXCEPT ![w] = Append(@, d)]
         /\ wr' = [wr EXCEPT ![Sec] = w]
         /\ data' = [data EXCEPT ![Sec] = d]
         /\ pc' = [pc EXCEPT ![Sec] = "drain"]

\* "async with self.bus_lock" (line 215) with the handles (r, w) in effect.
SecAcquire(d, r, w) ==
    IF LockFree(bus_lock)
    THEN SecCritical(d, r, w, LockTaken(bus_lock))
    ELSE /\ bus_lock' = LockQueued(bus_lock, Sec)
         /\ pc' = [pc EXCEPT ![Sec] = "lock"]
         /\ data' = [data EXCEPT ![Sec] = d]
         /\ nport1_reader' = r
         /\ nport1_writer' = w
         /\ UNCHANGED <<wire, wr>>

\* The end of the critical section: lines 241-245 when the body raised
\* (invalidate), the release of the lock, and the head of the loop.
SecLeave(invalidate) ==
    /\ nport1_reader' = IF invalidate THEN None ELSE nport1_reader
    /\ nport1_writer' = IF invalidate THEN None ELSE nport1_writer
    /\ bus_lock' = LockReleased(bus_lock)
    /\ data' = [data EXCEPT ![Sec] = 0]
    /\ wr' = [wr EXCEPT ![Sec] = None]
    /\ rd' = [rd EXCEPT ![Sec] = None]
    /\ SecIter(nport2_reader)

\* The task gather created runs for the first time (lines 177-183).
SecStart ==
    /\ pc[Sec] = "start"
    /\ SecIter(nport2_reader)
    /\ ev' = Note(Sec, "start")
    /\ UNCHANGED <<settings, traced, running, main_pc, server, handles1, handles2, bus_lock, locals,
                   conns1, open2, made2, wire, rx, client_open, chunks>>

\* connect_nport2 (lines 91-101) returns to line 183: on success the read
\* of line 188 is started, on failure sleep(5) is awaited.
SecConnected(ok) ==
    /\ pc[Sec] = "connect2"
    /\ IF ok
       THEN /\ made2 < MaxConns2
            /\ made2' = made2 + 1
            /\ open2' = open2 \cup {made2 + 1}
            /\ nport2_reader' = made2 + 1
            /\ nport2_writer' = made2 + 1
            /\ pc' = [pc EXCEPT ![Sec] = "read"]
       ELSE /\ pc' = [pc EXCEPT ![Sec] = "sleep"]
            /\ UNCHANGED <<made2, open2, handles2>>
    /\ ev' = Note(Sec, IF ok THEN "connect2_ok" ELSE "connect2_failed")
    /\ UNCHANGED <<settings, traced, running, main_pc, server, handles1, bus_lock, locals, conns1, wire, rx, client_open, chunks>>

\* A sleep (lines 184, 203, 211 or 261) is over: back to the loop head.
SecSlept ==
    /\ pc[Sec] = "sleep"
    /\ SecIter(nport2_reader)
    /\ ev' = Note(Sec, "slept")
    /\ UNCHANGED <<settings, traced, running, main_pc, server, handles1, handles2, bus_lock, locals,
                   conns1, open2, made2, wire, rx, client_open, chunks>>

\* The read of line 188 times out (lines 247-249): continue.
SecReadTimeout ==
    /\ pc[Sec] = "read"
    /\ SecIter(nport2_reader)
    /\ ev' = Note(Sec, "read_timeout")
    /\ UNCHANGED <<settings, traced, running, main_pc, server, handles1, handles2, bus_lock, locals,
                   conns1, open2, made2, wire, rx, client_open, chunks>>

\* The read of line 188 returns empty (lines 193-198) or raises
\* (lines 250-256): the writer is closed and wait_closed() is awaited.
SecReadEnds(how) ==
    /\ pc[Sec] = "read"
    /\ IF nport2_writer # None
       THEN /\ open2' = open2 \ {nport2_writer}
            /\ pc' = [pc EXCEPT ![Sec] = "closing"]
            /\ UNCHANGED handles2
       ELSE /\ nport2_reader' = None
            /\ nport2_writer' = None
            /\ pc' = [pc EXCEPT ![Sec] = "sleep"]
            /\ UNCHANGED open2
    /\ ev' = Note(Sec, how)
    /\ UNCHANGED <<settings, traced, running, main_pc, server, handles1, bus_lock, locals, conns1, made2, wire, rx, client_open, chunks>>

\* wait_closed() returns or raises (lines 198-203, 256-261): the handles
\* are cleared and sleep(1) is awaited.
SecClosed ==
    /\ pc[Sec] = "closing"
    /\ nport2_reader' = None
    /\ nport2_writer' = None
    /\ pc' = [pc EXCEPT ![Sec] = "sleep"]
    /\ ev' = Note(Sec, "nport2_closed")
    /\ UNCHANGED <<settings, traced, running, main_pc, server, handles1, bus_lock, locals, conns1, conns2,
                   wire, rx, client_open, chunks>>

\* The read of line 188 returns a chunk (lines 206-222).
SecReadData ==
    LET d == chunks + 1 IN
    /\ pc[Sec] = "read"
    /\ nport2_reader \in open2
    /\ chunks < budget
    /\ chunks' = chunks + 1
    /\ IF ensure_nport1_connected(nport1_reader, nport1_writer)
       THEN SecAcquire(d, nport1_reader, nport1_writer)
       ELSE /\ pc' = [pc EXCEPT ![Sec] = "connect1"]
            /\ data' = [data EXCEPT ![Sec] = d]
            /\ UNCHANGED <<handles1, bus_lock, wire, wr>>
    /\ ev' = Note(Sec, "read_data")
    /\ UNCHANGED <<settings, traced, running, main_pc, server, handles2, rd, open1, made1, open2, made2,
                   rx, client_open>>

\* connect_nport1 returns inside ensure_nport1_connected called at
\* line 209; on failure sleep(1) is awaited (lines 210-212).
SecPrimaryConnected(ok) ==
    /\ pc[Sec] = "connect1"
    /\ IF ok
       THEN /\ made1' = made1 + 1
            /\ open1' = open1 \cup {made1 + 1}
            /\ SecAcquire(data[Sec], made1 + 1, made1 + 1)
       ELSE /\ pc' = [pc EXCEPT ![Sec] = "sleep"]
            /\ data' = [data EXCEPT ![Sec] = 0]
            /\ UNCHANGED <<made1, open1, handles1, bus_lock, wire, wr>>
    /\ ev' = Note(Sec, IF ok THEN "connect_ok" ELSE "connect_failed")
    /\ UNCHANGED <<settings, traced, running, main_pc, server, handles2, rd, open2, made2, rx,
                   client_open, chunks>>

\* A waiter woken by release() takes the lock (line 215).
SecLocked ==
    /\ pc[Sec] = "lock"
    /\ LockWoken(bus_lock, Sec)
    /\ SecCritical(data[Sec], nport1_reader, nport1_writer, LockHandedOver(bus_lock))
    /\ ev' = Note(Sec, "locked")
    /\ UNCHANGED <<settings, traced, running, main_pc, server, handles2, rd, conns1, open2, made2, rx,
                   client_open, chunks>>

\* drain() of line 219 completes; see ClientDrained.
SecDrained(how) ==
    /\ pc[Sec] = "drain"
    /\ IF how = "drain_ok" /\ nport1_reader # None
       THEN /\ rd' = [rd EXCEPT ![Sec] = nport1_reader]
            /\ pc' = [pc EXCEPT ![Sec] = "resp"]
            /\ UNCHANGED <<handles1, bus_lock, data, wr>>
       ELSE SecLeave(TRUE)
    /\ ev' = Note(Sec, how)
    /\ UNCHANGED <<settings, traced, running, main_pc, server, handles2, conns1, open2, made2, wire, rx,
                   client_open, chunks>>

\* self.nport2_writer.write(response), line 236.
SecForward(response) == Append(rx[Sec], response)

\* The read of line 227 returns data (lines 232-237): when nport2_writer
\* is set the response is written to NPort 2 and its drain() is awaited.
SecResponseData ==
    /\ pc[Sec] = "resp"
    /\ rd[Sec] \in open1
    /\ wire[rd[Sec]] # <<>>
    /\ wire' = [wire EXCEPT ![rd[Sec]] = Tail(@)]
    /\ IF nport2_writer # None
       THEN /\ rx' = [rx EXCEPT ![Sec] = SecForward(Received(rd[Sec]))]
            /\ pc' = [pc EXCEPT ![Sec] = "reply"]
            /\ UNCHANGED <<handles1, bus_lock, locals>>
       ELSE /\ rx' = rx
            /\ SecLeave(FALSE)
    /\ ev' = Note(Sec, "resp_data")
    /\ UNCHANGED <<settings, traced, running, main_pc, server, handles2, conns1, open2, made2,
                   client_open, chunks>>

\* (variant) a failed read of NPort 1 that clears the NPort 2 handles too.
SecResponseNoneClearsBoth(how) ==
    /\ pc[Sec] = "resp"
    /\ SecLeave(how = "resp_error")
    /\ nport2_reader' = IF how = "resp_error" THEN None ELSE nport2_reader
    /\ nport2_writer' = IF how = "resp_error" THEN None ELSE nport2_writer
    /\ ev' = Note(Sec, how)
    /\ UNCHANGED <<settings, traced, running, main_pc, server, conns1, open2, made2, wire, rx,
                   client_open, chunks>>

\* The read of line 227 returns empty, times out (line 239) or raises
\* (line 241).  Only the last clears the NPort 1 handles.
SecResponseNone(how) ==
    /\ pc[Sec] = "resp"
    /\ SecLeave(how = "resp_error")
    /\ ev' = Note(Sec, how)
    /\ UNCHANGED <<settings, traced, running, main_pc, server, handles2, conns1, open2, made2, wire, rx,
                   client_open, chunks>>

\* nport2_writer.drain() of line 237 completes; when it raises, line 241
\* catches it and clears the NPort 1 handles.
SecReplied(ok) ==
    /\ pc[Sec] = "reply"
    /\ SecLeave(~ok)
    /\ ev' = Note(Sec, IF ok THEN "reply_ok" ELSE "reply_error")
    /\ UNCHANGED <<settings, traced, running, main_pc, server, handles2, conns1, open2, made2, wire, rx,
                   client_open, chunks>>

SecNext ==
    \/ SecStart
    \/ \E ok \in BOOLEAN : SecConnected(ok)
    \/ SecSlept
    \/ SecReadTimeout
    \/ \E how \in {"read_empty", "read_error"} : SecReadEnds(how)
    \/ SecClosed
    \/ SecReadData
    \/ \E ok \in BOOLEAN : SecPrimaryConnected(ok)
    \/ SecLocked
    \/ \E how \in {"drain_ok", "drain_error", "drain_timeout"} : SecDrained(how)
    \/ SecResponseData
    \/ \E how \in {"resp_empty", "resp_timeout", "resp_error"} : SecResponseNone(how)
    \/ \E ok \in BOOLEAN : SecReplied(ok)

Next ==
    \/ MainNext
    \/ \E c \in Clients : ClientNext(c)
    \/ SecNext

Spec == Init /\ [][Next]_vars

\* main() from the start of the process up to the first connect of run().
ConfigNext ==
    \/ LoadConfig
    \/ Construct
    \/ Run
    \/ \E ok \in BOOLEAN : RunPrimary(ok)

ConfigSpec == ConfigInit /\ [][ConfigNext]_vars

\* The same behaviours, with every step recorded in ev.
TracedSpec == InitTraced /\ [][Next]_vars

\* The runs of LongChunks chunks, plain and recorded.
LongSpec == LongInit /\ [][Next]_vars
LongTracedSpec == LongInitTraced /\ [][Next]_vars

\* The steps the event loop is bound to take: a task whose await has a
\* timeout (wait_for, sleep), a connect, a close or a woken lock waiter runs
\* again.  Left out: a new client (Accept), the end of the listener
\* (ServerFails), and the two drain() calls that have no timeout
\* (ClientReplied, line 154; SecReplied, line 237), which return only when
\* the peer takes the bytes; a drain() on a connection that cleanup() has
\* closed is woken with an error.
ClientBounded(c) ==
    \/ ClientReadData(c)
    \/ \E how \in {"read_empty", "read_timeout", "read_error"} : ClientReadEnds(c, how)
    \/ \E ok \in BOOLEAN : ClientConnected(c, ok)
    \/ ClientLocked(c)
    \/ \E how \in {"drain_ok", "drain_error", "drain_timeout"} : ClientDrained(c, how)
    \/ ClientResponseData(c)
    \/ \E how \in {"resp_empty", "resp_timeout", "resp_error"} : ClientResponseNone(c, how)

SecBounded ==
    \/ SecStart
    \/ \E ok \in BOOLEAN : SecConnected(ok)
    \/ SecSlept
    \/ SecReadTimeout
    \/ \E how \in {"read_empty", "read_error"} : SecReadEnds(how)
    \/ SecClosed
    \/ SecReadData
    \/ \E ok \in BOOLEAN : SecPrimaryConnected(ok)
    \/ SecLocked
    \/ \E how \in {"drain_ok", "drain_error", "drain_timeout"} : SecDrained(how)
    \/ SecResponseData
    \/ \E how \in {"resp_empty", "resp_timeout", "resp_error"} : SecResponseNone(how)
    \/ (nport2_writer \notin open2 /\ SecReplied(FALSE))

MainBounded ==
    \/ Run
    \/ \E ok \in BOOLEAN : RunPrimary(ok)
    \/ \E ok \in BOOLEAN : RunSecondary(ok)
    \/ \E ok \in BOOLEAN : StartServer(ok)
    \/ Cleanup
    \/ \E ok \in BOOLEAN : CleanupPrimaryClosed(ok)
    \/ CleanupSecondaryClosed
    \/ Teardown

FairSpec ==
    /\ InitTraced
    /\ [][Next]_vars
    /\ \A c \in Clients : WF_vars(ClientBounded(c))
    /\ WF_vars(SecBounded)
    /\ WF_vars(MainBounded)

\* ------------------------------------------------------------------ claims
\* A task is inside the critical section from its write to NPort 1 until it
\* leaves "async with self.bus_lock".
InExchange(t) == pc[t] \in {"drain", "resp", "reply"}
Inside == {t \in Tasks : InExchange(t)}
\* The step is the closing of the event loop, which cancels the tasks; the
\* claims about what a task does at the end of an await leave it aside.
LoopClosed == main_pc = "stopped" /\ main_pc' = "finished"

\* C1: mutual exclusion.  At most one task, client session or secondary
\* loop, is in the write/read phase of an exchange with NPort 1, and it
\* holds the lock; any other task that wants the bus waits for it.
C1_MutualExclusion ==
    /\ Cardinality(Inside) <= 1
    /\ Inside # {} => bus_lock.locked
    /\ \A t \in Tasks : pc[t] = "lock" <=> \E i \in DOMAIN bus_lock.waiters :
                                              bus_lock.waiters[i] = t

\* C1 witness: one task is in its exchange while another waits for the lock.
C1_Witness ==
    \E t1, t2 \in Tasks : t1 # t2 /\ InExchange(t1) /\ pc[t2] = "lock"

\* C2: release on every exit path.  The lock is held only while some task
\* is inside the critical section, so once that task has left, by normal
\* completion, reply timeout or a failure, the lock is free; and a free lock
\* with waiters has its first waiter ready to take it.
C2_ReleasedOnEveryExit ==
    /\ bus_lock.locked => Inside # {}
    /\ (~bus_lock.locked /\ bus_lock.waiters # <<>>) => pc[Head(bus_lock.waiters)] = "lock"

\* C2 witness: a task is in an exchange on a connection made by a reconnect;
\* the handles are cleared only by a critical section that failed, so an
\* exchange failed before and the lock was acquired again after it.
C2_Witness ==
    \E t \in Tasks : InExchange(t) /\ wr[t] > 1

\* C3: no operation blocks indefinitely.  Every connect, read and
\* write-and-flush is bounded by a timeout, so whenever the lock is held it
\* is released again within finite time, whatever the peer that receives
\* the reply does.
C3_LockReleasedInFiniteTime == bus_lock.locked ~> ~bus_lock.locked

\* C4: endpoint lifecycle.  After an I/O failure on an endpoint, and after
\* a read on it that returned empty (the peer closed), the endpoint's handle
\* is absent: for NPort 1 in the client sessions and in the secondary loop,
\* and for NPort 2 once its writer has been closed.
C4_HandleAbsentAfterFailure ==
    /\ (ev.t \in Tasks /\ ev.e \in {"drain_error", "drain_timeout", "resp_error",
                                     "resp_empty"})
          => (nport1_reader = None /\ nport1_writer = None)
    /\ (ev.t = Sec /\ ev.e \in {"nport2_closed", "reply_error"})
          => (nport2_reader = None /\ nport2_writer = None)

\* C5: reconnect idempotence.  A task that calls ensure_nport1_connected
\* (on receiving a chunk) with the handles present starts no connect and
\* changes neither the handles nor the connections; with the handles absent
\* it starts one connect and changes nothing else.  When that connect ends
\* with a connection made, the handles are that connection; when it ends
\* without one, the handles and connections are as before and the task
\* goes on (the next read, or the pause of the secondary loop).  No
\* connection is made by any other step.
C5_EnsureConnected ==
    [][/\ \A t \in Tasks :
            LET present == nport1_reader # None /\ nport1_writer # None
                gotChunk == pc[t] = "read" /\ chunks' = chunks + 1 /\ pc'[t] # pc[t]
                connectEnds == pc[t] = "connect1" /\ pc'[t] # "connect1" /\ ~LoopClosed
            IN  /\ (gotChunk /\ present) =>
                     /\ pc'[t] \in {"lock", "drain"}
                     /\ UNCHANGED <<nport1_reader, nport1_writer, made1, open1>>
                /\ (gotChunk /\ ~present) =>
                     /\ pc'[t] = "connect1"
                     /\ UNCHANGED <<nport1_reader, nport1_writer, made1, open1>>
                /\ (connectEnds /\ made1' # made1) =>
                     /\ made1' = made1 + 1
                     /\ nport1_reader' = made1' /\ nport1_writer' = made1'
                     /\ open1' = open1 \cup {made1'}
                /\ (connectEnds /\ made1' = made1) =>
                     /\ UNCHANGED <<nport1_reader, nport1_writer, open1>>
                     /\ pc'[t] \in (IF t = Sec THEN {"sleep"} ELSE {"read", "closed"})
       /\ made1' # made1 =>
            \/ main_pc = "connect1"
            \/ \E t \in Tasks : pc[t] = "connect1" /\ pc'[t] # "connect1"
      ]_vars

\* C5 witness: the handles are absent and a task's connect is in flight.
C5_Witness ==
    \E t \in Tasks : pc[t] = "connect1" /\ nport1_reader = None /\ nport1_writer = None

\* C6: end-to-end forwarding.  When a client session writes to NPort 1, it
\* writes the chunk it read from its client, to one connection and once;
\* when its read of NPort 1 returns data, exactly those bytes are appended,
\* once, to what the client is sent; and nothing else is ever sent to the
\* client.
C6_Forwarding ==
    [][\A c \in Clients :
         LET chunk == IF pc[c] = "read" THEN chunks' ELSE data[c]
             written == pc[c] # "drain" /\ pc'[c] = "drain"
             replied == pc[c] = "resp" /\ pc'[c] = "reply"
         IN  /\ (pc[c] = "read" /\ pc'[c] \in {"connect1", "lock"}) => data'[c] = chunk
             /\ written => wire' = [wire EXCEPT ![wr'[c]] = Append(@, chunk)]
             /\ replied => rx'[c] = Append(rx[c], Reply(Head(wire[rd[c]])))
             /\ rx'[c] # rx[c] => replied
      ]_vars

\* C6 witness: a client has been sent the device's answer to its chunk.
C6_Witness ==
    \E c \in Clients : pc[c] = "reply" /\ rx[c] = <<Reply(data[c])>>

\* The listener or a task of the bridge has been started.
Started == server # "idle" \/ \E t \in Tasks : pc[t] # "idle"

\* C7: startup sequencing.  The listener, the secondary loop and the client
\* sessions exist only after run() has connected NPort 1 and finished its
\* connect of NPort 2; run() ends early only when no connection to NPort 1
\* was made, and then nothing was started; once NPort 1 is connected the
\* bridge is started whether or not NPort 2 connected.
C7_StartupSequencing ==
    /\ Started => (made1 >= 1 /\ main_pc \in {"serving", "cleanup1", "cleanup2", "stopped",
                                              "finished"})
    /\ main_pc = "exited" => (~Started /\ made1 = 0 /\ made2 = 0 /\ nport1_writer = None)
    /\ main_pc \in {"serving", "cleanup1", "cleanup2", "stopped", "finished"}
          => (server # "idle" /\ pc[Sec] # "idle")

\* C7 witness: the listener is up although NPort 2 has never connected.
C7_Witness ==
    server = "listening" /\ made2 = 0 /\ nport2_reader = None /\ made1 >= 1

\* C8: shutdown closes both endpoints.  Once cleanup() has finished, no
\* connection to NPort 1 and none to NPort 2 is open.
C8_AllClosedAfterCleanup ==
    main_pc = "stopped" => (open1 = {} /\ open2 = {})

\* C9: session termination.  A client read that returns empty, times out
\* or raises ends the session; a session ends only on such a read or when
\* the bridge is no longer running; and a session that has ended has its
\* client socket closed.
C9_SessionTermination ==
    /\ [](\A c \in Clients : pc[c] \in {"idle", "closed"} => ~client_open[c])
    /\ [][\A c \in Clients :
            /\ (\E how \in {"read_empty", "read_timeout", "read_error"} :
                    ClientReadEnds(c, how))
                  => (pc'[c] = "closed" /\ ~client_open'[c])
            /\ (pc[c] # "closed" /\ pc'[c] = "closed")
                  => (client_open[c] /\ ~client_open'[c] /\ (pc[c] = "read" \/ ~running))
         ]_vars

\* C9 witness: a session has ended while the bridge is running, and its
\* socket is closed.
C9_Witness ==
    \E c \in Clients : pc[c] = "closed" /\ ~client_open[c] /\ running

\* C10: client-socket failures are contained.  A timeout or error of a
\* client's socket, on the read of a request or on the write of a reply,
\* closes that session, leaves the NPort 1 handles as they are and moves no
\* other task.
C10_ClientFailureContained ==
    [][\A c \in Clients :
         (ev'.t = c /\ ev'.e \in {"read_timeout", "read_error", "reply_error"})
            => /\ pc'[c] = "closed" /\ ~client_open'[c]
               /\ UNCHANGED <<nport1_reader, nport1_writer>>
               /\ \A t \in Tasks \ {c} : pc'[t] = pc[t]
      ]_vars

\* C11: primary unreachable during operation.  When a client session's
\* connect of NPort 1 (made for a chunk that found a handle absent) fails,
\* nothing is written to NPort 1, the lock is neither taken nor queued for,
\* nothing is sent to the client, the handles stay as they were, the chunk
\* is dropped, and while the bridge is running the session is open and at
\* its client read again; a chunk read while a handle is absent leads to a
\* connect attempt.
C11_ChunkSkippedWhenUnreachable ==
    [][\A c \in Clients :
         LET connectFailed == /\ pc[c] = "connect1" /\ pc'[c] # "connect1"
                              /\ made1' = made1 /\ ~LoopClosed
             gotChunk == pc[c] = "read" /\ pc'[c] # "read" /\ chunks' # chunks
         IN  /\ connectFailed
                => /\ UNCHANGED <<wire, bus_lock, rx, nport1_reader, nport1_writer, open1>>
                   /\ data'[c] = 0
                   /\ running => (pc'[c] = "read" /\ client_open'[c])
             /\ (gotChunk /\ (nport1_reader = None \/ nport1_writer = None))
                => (pc'[c] = "connect1" /\ UNCHANGED <<wire, bus_lock, rx>>)
      ]_vars

\* C11 witness: client 1, the only task that has read anything, is back at
\* its read with the bridge running and NPort 1 absent; its second chunk
\* was written nowhere and no connection was made for it.
C11_Witness ==
    /\ running /\ pc[1] = "read" /\ client_open[1]
    /\ \A t \in Tasks \ {1} : pc[t] \in {"idle", "start", "connect2", "sleep"}
    /\ made2 = 0 /\ made1 = 1 /\ chunks = 2
    /\ nport1_reader = None /\ nport1_writer = None
    /\ wire[1] = <<1>> /\ rx[1] = <<>>

\* C12: primary failure mid-exchange.  When, inside the critical section,
\* the write to NPort 1 raises, its drain fails or times out, or the read of
\* NPort 1 raises, then after that step both NPort 1 handles are None,
\* nothing was sent to the requester, the lock is free and the task is not
\* queued for it, and while the bridge is running the task is at its next
\* read (a client session with its socket open).
C12_FailureMidExchange ==
    [][\A t \in Tasks :
         LET writeRaised == pc[t] = "lock" /\ pc'[t] \notin {"lock", "drain"} /\ ~LoopClosed
             flushFailed == pc[t] = "drain" /\ pc'[t] \notin {"drain", "resp"} /\ ~LoopClosed
             readRaised == IF t = Sec THEN SecResponseNone("resp_error")
                                      ELSE ClientResponseNone(t, "resp_error")
         IN  (writeRaised \/ flushFailed \/ readRaised)
                => /\ nport1_reader' = None /\ nport1_writer' = None
                   /\ rx' = rx
                   /\ ~bus_lock'.locked
                   /\ \A i \in DOMAIN bus_lock'.waiters : bus_lock'.waiters[i] # t
                   /\ data'[t] = 0
                   /\ running => (pc'[t] = "read" /\ (t \in Clients => client_open'[t]))
      ]_vars

\* C12 witness: the only chunk read so far was written to NPort 1 and never
\* answered, the handles have been cleared, the lock is free and the task
\* is at its read again.
C12_Witness ==
    \E t \in Tasks :
        /\ running /\ pc[t] = "read" /\ chunks = 1 /\ wire[1] = <<1>>
        /\ nport1_reader = None /\ nport1_writer = None
        /\ ~bus_lock.locked /\ rx[t] = <<>>

\* C13: a reply timeout is not fatal.  When the read of NPort 1 inside the
\* critical section times out, nothing is sent to the requester, the NPort 1
\* handles stay as they are, the lock is free after the step and the task
\* is not queued for it, and while the bridge is running the task is at its
\* next read (a client session with its socket open).
C13_ReplyTimeoutNotFatal ==
    [][\A t \in Tasks :
         LET timedOut == IF t = Sec THEN SecResponseNone("resp_timeout")
                                    ELSE ClientResponseNone(t, "resp_timeout")
         IN  timedOut
                => /\ rx' = rx
                   /\ UNCHANGED <<nport1_reader, nport1_writer, open1, open2>>
                   /\ ~bus_lock'.locked
                   /\ \A i \in DOMAIN bus_lock'.waiters : bus_lock'.waiters[i] # t
                   /\ running => (pc'[t] = "read" /\ (t \in Clients => client_open'[t]))
      ]_vars

\* C13 witness: the only chunk read so far was written to NPort 1 and not
\* answered; the handles are still set, the lock is free, nothing was sent
\* back and the task is at its read again.
C13_Witness ==
    \E t \in Tasks :
        /\ running /\ pc[t] = "read" /\ chunks = 1 /\ wire[1] = <<1>>
        /\ nport1_reader = 1 /\ nport1_writer = 1
        /\ ~bus_lock.locked /\ rx[t] = <<>>

\* C14: secondary failures invalidate the secondary.  After a failed
\* connect of NPort 2 by the loop, after a read of NPort 2 that ended
\* (empty or raising) and its close, and after a failed write of a reply to
\* NPort 2, both NPort 2 handles are None and the loop is in its pause.
C14_SecondaryInvalidated ==
    (ev.t = Sec /\ ev.e \in {"connect2_failed", "nport2_closed", "reply_error"})
        => (nport2_reader = None /\ nport2_writer = None /\ pc[Sec] = "sleep")

\* C15: the secondary loop does not end while the bridge is running.  The
\* loop is over only when running is False; no step taken while running is
\* True ends it; and a pause that ends while running is True leads to the
\* head of the loop (the connect of NPort 2 or the read of NPort 2).
C15_SecondaryLoopNeverEnds ==
    /\ [](pc[Sec] = "done" => ~running)
    /\ [][running => pc'[Sec] # "done"]_vars
    /\ [][(running /\ pc[Sec] \in {"sleep", "closing"} /\ pc'[Sec] # pc[Sec])
             => pc'[Sec] \in {"sleep", "connect2", "read"}]_vars

\* C15 witness: NPort 2 was connected and lost, and the loop, still
\* running, is at its connect of NPort 2 again.
C15_Witness ==
    running /\ pc[Sec] = "connect2" /\ made2 >= 1 /\ nport2_reader = None

\* C16: secondary-loop resilience.  Once the secondary loop has
\* reconnected NPort 2 after a disconnect and holds a chunk received from
\* it, waiting for the bus, it eventually gets the bus for that chunk,
\* unless the bridge shuts down first.
C16_ReconnectedLoopForwards ==
    (made2 >= 2 /\ pc[Sec] = "lock") ~> (pc[Sec] # "lock" \/ ~running)

\* C17: error propagation.  Once run() has connected NPort 1 and started
\* the listener and the secondary loop, the bridge keeps running: run()
\* never goes on to cleanup() and running stays True, whatever fails.
C17_NoFailureEndsBridge ==
    main_pc \in {"serving", "cleanup1", "cleanup2", "stopped", "finished"}
        => (running /\ main_pc = "serving")

\* A string that denotes an integer in decimal: one or more digits, with
\* at most one sign in front.
Numeric(s) ==
    \E k \in {0, 1} :
        /\ k = 1 => (Len(s) >= 1 /\ s[1] \in {"+", "-"})
        /\ Len(s) > k
        /\ \A i \in (k + 1)..Len(s) :
              s[i] \in {"0", "1", "2", "3", "4", "5", "6", "7", "8", "9"}

\* C18: invalid configuration is rejected.  When a numeric setting (a
\* gateway port, the listen port, the timeout) is supplied with a value
\* that is not numeric, then once load_config is over the process has
\* exited with status 1, main() holds no configuration, and no connect or
\* listen was performed.
C18_InvalidConfigRejected ==
    (main_pc # "load" /\ \E n \in NumericNames : n \in DOMAIN env /\ ~Numeric(env[n]))
        => /\ main_pc = "exit" /\ exit_status = 1
           /\ DOMAIN config = {}
           /\ ~running /\ server = "idle"
           /\ made1 = 0 /\ made2 = 0 /\ open1 = {} /\ open2 = {}

\* C18 witness: only the timeout is supplied, as "x", and the process has
\* exited.
C18_Witness ==
    /\ main_pc = "exit"
    /\ DOMAIN env = {"MODBUS_TIMEOUT"} /\ env["MODBUS_TIMEOUT"] = <<"x">>

\* The integer a numeric string denotes, digit by digit from the left.
RECURSIVE NumberOf(_, _)
NumberOf(s, acc) ==
    IF s = <<>> THEN acc
    ELSE IF Head(s) = "-" THEN 0 - NumberOf(Tail(s), acc)
    ELSE IF Head(s) = "+" THEN NumberOf(Tail(s), acc)
    ELSE NumberOf(Tail(s),
                  10 * acc + CASE Head(s) = "0" -> 0 [] Head(s) = "1" -> 1
                                  [] Head(s) = "2" -> 2 [] Head(s) = "3" -> 3
                                  [] Head(s) = "4" -> 4 [] Head(s) = "5" -> 5
                                  [] Head(s) = "6" -> 6 [] Head(s) = "7" -> 7
                                  [] Head(s) = "8" -> 8 [] Head(s) = "9" -> 9)

\* C19: configuration values.  The configuration load_config returns holds,
\* for every setting, the supplied value when one is supplied (a numeric
\* setting as the integer its string denotes) and otherwise the default:
\* gateways 192.168.1.100:4001 and 192.168.1.101:4002, listen 0.0.0.0:5020,
\* timeout 3.
C19_ConfigValues ==
    main_pc = "configured" =>
        LET host(n, default) == IF n \in DOMAIN env THEN env[n] ELSE default
            number(n, default) == IF n \in DOMAIN env THEN NumberOf(env[n], 0) ELSE default
        IN  /\ DOMAIN config = {"nport1_host", "nport1_port", "nport2_host", "nport2_port",
                                "listen_host", "listen_port", "timeout"}
            /\ config.nport1_host = host("NPORT1_HOST", "192.168.1.100")
            /\ config.nport2_host = host("NPORT2_HOST", "192.168.1.101")
            /\ config.listen_host = host("LISTEN_HOST", "0.0.0.0")
            /\ config.nport1_port = number("NPORT1_PORT", 4001)
            /\ config.nport2_port = number("NPORT2_PORT", 4002)
            /\ config.listen_port = number("LISTEN_PORT", 5020)
            /\ config.timeout = number("MODBUS_TIMEOUT", 3)
            /\ \A k \in {"nport1_port", "nport2_port", "listen_port", "timeout"} :
                  config[k] \in Int

\* C19 witness: a configuration loaded with one port and one host supplied
\* and the other settings left to their defaults.
C19_Witness ==
    /\ main_pc = "configured"
    /\ DOMAIN env = {"NPORT1_PORT", "LISTEN_HOST"}
    /\ config.nport1_port = 4 /\ config.nport2_port = 4002
    /\ config.listen_host = "gateway.example" /\ config.nport1_host = "192.168.1.100"

\* The awaits outside "async with self.bus_lock": the read of the client or
\* of NPort 2, a connect of NPort 1 or NPort 2, a pause, the close of
\* NPort 2.
Waiting == {"read", "connect1", "connect2", "sleep", "closing"}

\* C20: the lock is not held during a connect, a pause or a wait for
\* input.  Whenever a task is at one of these awaits and the lock is held,
\* another task is inside its critical section holding it.
C20_LockNotHeldWhileWaiting ==
    \A t \in Tasks :
        (pc[t] \in Waiting /\ bus_lock.locked) => \E u \in Tasks \ {t} : InExchange(u)

\* C20 witness: the secondary loop is connecting NPort 2 or pausing while a
\* client session is inside its critical section.
C20_Witness ==
    \E u \in Clients : pc[Sec] \in {"connect2", "sleep"} /\ InExchange(u) /\ bus_lock.locked
\* C21: racing reconnects are harmless.  The request write and the reply
\* read of any one exchange use the same connection to NPort 1: a task that
\* waits for the reply reads from the connection its request was written
\* to, also when another task's connect_nport1 completed meanwhile.
C21_ExchangeOnOneConnection ==
    \A t \in Tasks : pc[t] = "resp" => rd[t] = wr[t]

\* C22: the handle of NPort 2 is changed only by connect_nport2, called at
\* startup or by the secondary loop, and by the secondary loop's own
\* failure path (the close after an empty or failed read of NPort 2).  No
\* step of a client session changes it, and a step in which the secondary
\* loop's exchange invalidates the NPort 1 handle leaves it as it was.
C22_SecondaryHandleFrame ==
    [][ /\ handles2' # handles2 =>
              \/ main_pc = "connect2" /\ main_pc' = "serving"
              \/ pc[Sec] = "connect2" /\ pc'[Sec] = "read"
              \/ pc[Sec] = "closing" /\ pc'[Sec] = "sleep"
        /\ \A c \in Clients : pc'[c] # pc[c] => handles2' = handles2
        /\ (InExchange(Sec) /\ nport1_writer # None /\ nport1_writer' = None) =>
              nport1_reader' = None /\ handles2' = handles2 ]_vars

\* The secondary loop's exchange has invalidated the NPort 1 handle (no
\* client was ever accepted) and the NPort 2 handle is still set.
C22_Witness ==
    /\ \A c \in Clients : pc[c] = "idle"
    /\ made1 >= 1 /\ nport1_writer = None /\ nport1_reader = None
    /\ nport2_writer # None /\ nport2_reader # None

\* C23: arrival-order queueing.  Tasks waiting for bus_lock are served in
\* the order in which they began waiting: a task that starts to wait joins
\* the end of the queue, the task that is served is the one at its front,
\* nobody takes the lock past a waiting task, and nothing else reorders
\* the queue.  (The closing of the event loop serves nobody.)
C23_ArrivalOrder ==
    [][ LET q == bus_lock.waiters IN
        ~LoopClosed =>
          /\ \A t \in Tasks :
                /\ (pc[t] # "lock" /\ pc'[t] = "lock") => bus_lock'.waiters = Append(q, t)
                /\ (pc[t] = "lock" /\ pc'[t] # "lock") =>
                      q # <<>> /\ Head(q) = t /\ bus_lock'.waiters = Tail(q)
                /\ (pc[t] # "lock" /\ ~InExchange(t) /\ InExchange(t)') => q = <<>>
          /\ bus_lock'.waiters # q =>
                \E t \in Tasks : (pc[t] = "lock") # (pc'[t] = "lock") ]_vars

\* Two tasks wait for the lock at once, in the order of their chunks.
C23_Witness ==
    /\ Len(bus_lock.waiters) >= 2
    /\ data[bus_lock.waiters[1]] < data[bus_lock.waiters[2]]

\* C24: the handle is present at the write.  When a task that waited for
\* bus_lock enters the critical section and writes its request (lines 136,
\* 218), nport1_writer is set: no other task's failed exchange has cleared
\* it since ensure_nport1_connected found it present.
C24_HandlePresentAtWrite ==
    [][ \A t \in Tasks :
            (pc[t] = "lock" /\ pc'[t] # "lock" /\ ~LoopClosed) => nport1_writer # None ]_vars

\* C25: request/response pairing.  The reply a task forwards to its
\* requester is the device's response to the request the task wrote in
\* that same exchange, never the late response to a request whose own
\* exchange has timed out.
C25_RequestResponsePairing ==
    \A t \in Tasks :
        pc[t] = "reply" => rx[t] # <<>> /\ rx[t][Len(rx[t])] = Reply(data[t])

\* C26: a single connection to NPort 1.  Whenever the NPort 1 handle is
\* invalidated, or replaced by a new connect, the connection it referred
\* to has been closed, so that at most one is open at any time.  (A step in
\* which that connection itself raised is left aside: the transport of a
\* connection that failed is closed by the event loop.)
C26_SinglePrimaryConnection ==
    [][ (nport1_writer # None /\ nport1_writer' # nport1_writer) =>
            \/ nport1_writer \notin open1'
            \/ ev'.e \in {"drain_error", "resp_error"} ]_vars

\* C27: termination after shutdown.  Once cleanup() has cleared running and
\* closed the endpoints, the sessions and the secondary loop end by
\* themselves, and an exchange in progress is not interrupted: a client
\* session that is delivering a reply leaves its exchange only by a step of
\* its own, when its drain() returns or raises.
C27_ExchangeNotInterrupted ==
    [][ \A c \in Clients : (pc[c] = "reply" /\ pc'[c] # "reply") => ev'.t = c ]_vars

====
